---- MODULE Spec2Model ----
(***************************************************************************)
(* Model of the eda-cli command-line entry points (eda_cli/cli.py): the    *)
(* commands `overview` and `report`, statement by statement, run against a *)
(* small filesystem.  The analysis functions of eda_cli.core and the       *)
(* writers of eda_cli.viz are modelled from their documented contracts.    *)
(***************************************************************************)
EXTENDS Integers, Sequences, FiniteSets, TLC

(* ----------------------------- bounds ---------------------------------- *)

\* number of CLI invocations explored in one behaviour
MaxRuns == 2

(* ---------------------- program constants ------------------------------ *)

\* default of --max-hist-columns
max_hist_columns == 6
\* default of --top-k-categories
top_k_categories == 5

(* ------------------------- the environment ----------------------------- *)

\* a column of a CSV file: its name, whether the reader infers a numeric
\* dtype, and how many of its cells are missing
Col(name, numeric, missing) ==
    [name |-> name, numeric |-> numeric, missing |-> missing]

\* The input files on disk.  exists: the path exists; readable: pd.read_csv
\* succeeds on it with the separator and encoding given; n_rows / cols: what
\* the reader returns.  A header-only file has object (non-numeric) columns.
InputFiles ==
    [p \in {"nofile.csv", "garbled.csv", "empty.csv", "ids.csv", "clean.csv"}
        |->
        CASE p = "nofile.csv" ->
                [exists |-> FALSE, readable |-> FALSE, n_rows |-> 0,
                 cols |-> <<>>]
          [] p = "garbled.csv" ->
                [exists |-> TRUE, readable |-> FALSE, n_rows |-> 0,
                 cols |-> <<>>]
          [] p = "empty.csv" ->
                [exists |-> TRUE, readable |-> TRUE, n_rows |-> 0,
                 cols |-> <<Col("id", FALSE, 0), Col("val", FALSE, 0)>>]
          [] p = "ids.csv" ->
                [exists |-> TRUE, readable |-> TRUE, n_rows |-> 4,
                 cols |-> <<Col("id", TRUE, 0), Col("val", TRUE, 1)>>]
          [] p = "clean.csv" ->
                [exists |-> TRUE, readable |-> TRUE, n_rows |-> 2,
                 cols |-> <<Col("name", FALSE, 0)>>]]

Paths == DOMAIN InputFiles

\* values of --out-dir; "notes.txt" names an existing regular file
OutDirs == {"reports", "out2", "notes.txt"}

\* values of --min-missing-share, in percent
MinMissingShares == {25, 30}

FileNames ==
    {"summary.csv", "missing.csv", "correlation.csv", "top_categories",
     "report.md", "hist", "missing_matrix.png", "correlation_heatmap.png"}

TabularNames == {"summary.csv", "missing.csv", "correlation.csv"}

\* a directory entry: absent, a regular file, or a directory whose files
\* each hold a sequence of written payloads (<<>>: the file is absent)
NoFiles == [f \in FileNames |-> <<>>]

AbsentEntry == [kind |-> "absent", files |-> NoFiles]

FileEntry == [kind |-> "file", files |-> NoFiles]

InitFs ==
    [d \in OutDirs |-> IF d = "notes.txt" THEN FileEntry ELSE AbsentEntry]

(* -------------------------- pure functions ----------------------------- *)

Range(s) == {s[i] : i \in DOMAIN s}

\* pd.read_csv returns a frame rather than raising
CanParse(path) == InputFiles[path].readable

read_csv(path) ==
    [source |-> path, n_rows |-> InputFiles[path].n_rows,
     cols |-> InputFiles[path].cols]

NoFrame == [source |-> "", n_rows |-> 0, cols |-> <<>>]

summarize_dataset(df) ==
    [n_rows |-> df.n_rows, n_cols |-> Len(df.cols),
     columns |-> [i \in DOMAIN df.cols |->
        [name |-> df.cols[i].name, is_numeric |-> df.cols[i].numeric,
         non_null |-> df.n_rows - df.cols[i].missing,
         missing |-> df.cols[i].missing]]]

flatten_summary_for_print(summary) == summary.columns

\* one row per column (missing_count, missing_share = missing_count/n_rows,
\* kept as the pair of integers); the empty table for a frame without rows
\* or without columns
missing_table(df) ==
    IF df.n_rows = 0 \/ df.cols = <<>> THEN {}
    ELSE {[name |-> c.name, missing_count |-> c.missing, n_rows |-> df.n_rows]
            : c \in Range(df.cols)}

NumericNames(df) == {c.name : c \in {x \in Range(df.cols) : x.numeric}}

\* the (square) matrix is identified by its index; empty below two numeric
\* columns
correlation_matrix(df) ==
    IF Cardinality(NumericNames(df)) < 2 THEN {} ELSE NumericNames(df)

\* one table per non-numeric column
top_categories(df, top_k) ==
    {c.name : c \in {x \in Range(df.cols) : ~x.numeric}}

\* r.missing_count / r.n_rows >= pct / 100
ShareAtLeast(r, pct) == r.missing_count * 100 >= pct * r.n_rows

\* max_missing_share: the largest missing_share of the table, kept as the
\* pair (missing_count, n_rows); 0 for the empty table
compute_quality_flags(summary, missing_df, df) ==
    IF missing_df = {} THEN [max_missing_count |-> 0, n_rows |-> 1]
    ELSE LET top == CHOOSE r \in missing_df :
                        \A q \in missing_df :
                            q.missing_count * r.n_rows
                                <= r.missing_count * q.n_rows
         IN  [max_missing_count |-> top.missing_count, n_rows |-> top.n_rows]

\* DataFrame.empty
IsEmpty(table) == table = {}


\* variant: a strict comparison against the threshold
SelectRowsStrict(missing_df, min_missing_share) ==
    {r \in missing_df : r.missing_count * 100 > min_missing_share * r.n_rows}

\* the rows of missing_df whose missing_share >= min_missing_share
SelectRows(missing_df, min_missing_share) ==
    {r \in missing_df : ShareAtLeast(r, min_missing_share)}

\* variant: the selection without the emptiness guard
ProblematicMissingUnguarded(missing_df, min_missing_share) ==
    [selected |-> TRUE, rows |-> SelectRows(missing_df, min_missing_share)]

\* problematic_missing: the selection when the table is not empty, else a
\* fresh empty frame; `selected` records that the mask was evaluated
ProblematicMissing(missing_df, min_missing_share) ==
    IF ~IsEmpty(missing_df)
    THEN [selected |-> TRUE, rows |-> SelectRows(missing_df, min_missing_share)]
    ELSE [selected |-> FALSE, rows |-> {}]

\* variant: the conditional writes made unconditional
ShouldWriteAlways(table) == TRUE

\* the guard of the two conditional to_csv calls
ShouldWrite(table) == ~IsEmpty(table)

\* variant: files opened in append mode
WriteFileAppend(entry, name, payload) ==
    [entry EXCEPT !.files[name] = Append(@, payload)]

\* to_csv / open(..., "w"): the file holds exactly the new payload
WriteFile(entry, name, payload) ==
    [entry EXCEPT !.files[name] = <<payload>>]

\* Path.mkdir(parents=True, exist_ok=True) on an entry that is not a file
MkDir(entry) ==
    IF entry.kind = "dir" THEN entry ELSE [kind |-> "dir", files |-> NoFiles]

\* the "problematic columns" section of report.md
ProblematicSection(problematic_missing) ==
    IF IsEmpty(problematic_missing.rows)
    THEN [none_found |-> TRUE, listed |-> {}]
    ELSE [none_found |-> FALSE,
          listed |-> {r.name : r \in problematic_missing.rows}]

\* variant: a handler that removes the partial output
AfterUncaughtCleanup(entry) == [entry EXCEPT !.files = NoFiles]

\* an exception raised by a viz call is not caught: nothing is undone
AfterUncaught(entry) == entry

(* ------------------------------ stages --------------------------------- *)

\* variant: the success message echoed before the plots
ReportStagesEchoFirst ==
    <<"mkdir", "load", "summarize", "flatten", "missing_table",
      "correlation_matrix", "top_categories", "quality_flags",
      "write_summary", "write_missing", "write_correlation",
      "save_top_categories", "select_problematic", "write_report_md",
      "echo_dir", "echo_md",
      "plot_histograms", "plot_missing_matrix", "plot_correlation_heatmap">>

\* variant: summary.csv written before the quality flags are computed
ReportStagesWriteEarly ==
    <<"mkdir", "load", "summarize", "flatten", "missing_table",
      "correlation_matrix", "top_categories", "write_summary",
      "quality_flags", "write_missing", "write_correlation",
      "save_top_categories", "select_problematic", "write_report_md",
      "plot_histograms", "plot_missing_matrix", "plot_correlation_heatmap",
      "echo_dir", "echo_md">>

\* the statements of report, in program order
ReportStages ==
    <<"mkdir", "load", "summarize", "flatten", "missing_table",
      "correlation_matrix", "top_categories", "quality_flags",
      "write_summary", "write_missing", "write_correlation",
      "save_top_categories", "select_problematic", "write_report_md",
      "plot_histograms", "plot_missing_matrix", "plot_correlation_heatmap",
      "echo_dir", "echo_md">>

\* the statements of overview, in program order
OverviewStages ==
    <<"load", "summarize", "flatten", "echo_rows", "echo_cols",
      "echo_header", "echo_table">>

StagesOf(c) == IF c = "report" THEN ReportStages ELSE OverviewStages

IndexOf(seq, x) == CHOOSE i \in DOMAIN seq : seq[i] = x

\* the statement that follows `stage`, or "done" after the last one
After(c, stage) ==
    LET seq == StagesOf(c)
        i == IndexOf(seq, stage)
    IN  IF i = Len(seq) THEN "done" ELSE seq[i + 1]

(* ------------------------------- state --------------------------------- *)

VARIABLES
    fs,        \* the output side of the filesystem: OutDirs -> entry
    nruns,     \* invocations started so far
    cmd,       \* the command of the current invocation
    args,      \* its arguments
    pc,        \* the statement to execute next; "idle", "done" or "failed"
    loc,       \* the local variables of the command function
    log,       \* the statements executed so far in this invocation
    stdout,    \* the lines echoed so far in this invocation
    written,   \* the files written so far in this invocation
    failure,   \* the exception the invocation ended with, "" if none
    fsStart,   \* fs when the invocation started
    repeat     \* the invocation before this one was a successful report with
               \* the very same arguments

vars ==
    <<fs, nruns, cmd, args, pc, loc, log, stdout, written, failure, fsStart,
      repeat>>

NoArgs ==
    [path |-> "nofile.csv", out_dir |-> "reports", min_missing_share |-> 30]

NoLocals ==
    [df |-> NoFrame,
     summary |-> summarize_dataset(NoFrame),
     summary_df |-> <<>>,
     missing_df |-> {},
     corr_df |-> {},
     top_cats |-> {},
     quality_flags |-> compute_quality_flags(summarize_dataset(NoFrame), {}, NoFrame),
     problematic_missing |-> [selected |-> FALSE, rows |-> {}]]

Init ==
    /\ fs = InitFs
    /\ nruns = 0
    /\ cmd = "none"
    /\ args = NoArgs
    /\ pc = "idle"
    /\ loc = NoLocals
    /\ log = <<>>
    /\ stdout = <<>>
    /\ written = {}
    /\ failure = ""
    /\ fsStart = InitFs
    /\ repeat = FALSE

out_root == args.out_dir

\* the common part of a statement that completes normally
Step(stage) ==
    /\ pc = stage
    /\ pc' = After(cmd, stage)
    /\ log' = Append(log, stage)
    /\ failure' = failure
    /\ UNCHANGED <<nruns, cmd, args, fsStart, repeat>>

\* the common part of a statement that raises
Raise(stage, exc) ==
    /\ pc = stage
    /\ pc' = "failed"
    /\ log' = Append(log, stage)
    /\ failure' = exc
    /\ UNCHANGED <<nruns, cmd, args, fsStart, repeat>>

(* ------------------------------ actions -------------------------------- *)

\* the CLI framework dispatches one command with parsed arguments
Invoke ==
    /\ pc \in {"idle", "done", "failed"}
    /\ nruns < MaxRuns
    /\ \E c \in {"overview", "report"}, p \in Paths, d \in OutDirs,
          m \in MinMissingShares :
        /\ cmd' = c
        /\ args' = [path |-> p,
                    out_dir |-> IF c = "report" THEN d ELSE NoArgs.out_dir,
                    min_missing_share |->
                        IF c = "report" THEN m ELSE NoArgs.min_missing_share]
        /\ pc' = StagesOf(c)[1]
    /\ nruns' = nruns + 1
    /\ repeat' = (cmd = "report" /\ pc = "done" /\ cmd' = cmd /\ args' = args)
    /\ loc' = NoLocals
    /\ log' = <<>>
    /\ stdout' = <<>>
    /\ written' = {}
    /\ failure' = ""
    /\ fsStart' = fs
    /\ UNCHANGED fs

\* out_root.mkdir(parents=True, exist_ok=True)
MakeOutDir ==
    \/ /\ fs[out_root].kind # "file"
       /\ Step("mkdir")
       /\ fs' = [fs EXCEPT ![out_root] = MkDir(@)]
       /\ UNCHANGED <<loc, stdout, written>>
    \/ /\ fs[out_root].kind = "file"
       /\ Raise("mkdir", "FileExistsError")
       /\ UNCHANGED <<fs, loc, stdout, written>>

\* _load_csv
LoadCsv ==
    \/ /\ ~InputFiles[args.path].exists
       /\ Raise("load", "BadParameter")
       /\ UNCHANGED <<fs, loc, stdout, written>>
    \/ /\ InputFiles[args.path].exists
       /\ ~CanParse(args.path)
       /\ Raise("load", "BadParameter")
       /\ UNCHANGED <<fs, loc, stdout, written>>
    \/ /\ InputFiles[args.path].exists
       /\ CanParse(args.path)
       /\ Step("load")
       /\ loc' = [loc EXCEPT !.df = read_csv(args.path)]
       /\ UNCHANGED <<fs, stdout, written>>

Summarize ==
    /\ Step("summarize")
    /\ loc' = [loc EXCEPT !.summary = summarize_dataset(loc.df)]
    /\ UNCHANGED <<fs, stdout, written>>

Flatten ==
    /\ Step("flatten")
    /\ loc' = [loc EXCEPT !.summary_df = flatten_summary_for_print(loc.summary)]
    /\ UNCHANGED <<fs, stdout, written>>

\* typer.echo of one line of the overview
Echo(stage, line) ==
    /\ Step(stage)
    /\ stdout' = Append(stdout, line)
    /\ UNCHANGED <<fs, loc, written>>

OverviewEchoRows == Echo("echo_rows", [tag |-> "rows", n |-> loc.summary.n_rows])

OverviewEchoCols == Echo("echo_cols", [tag |-> "cols", n |-> loc.summary.n_cols])

OverviewEchoHeader == Echo("echo_header", [tag |-> "header", n |-> 0])

OverviewEchoTable == Echo("echo_table", [tag |-> "table", n |-> Len(loc.summary_df)])

MissingTable ==
    /\ Step("missing_table")
    /\ loc' = [loc EXCEPT !.missing_df = missing_table(loc.df)]
    /\ UNCHANGED <<fs, stdout, written>>

CorrelationMatrix ==
    /\ Step("correlation_matrix")
    /\ loc' = [loc EXCEPT !.corr_df = correlation_matrix(loc.df)]
    /\ UNCHANGED <<fs, stdout, written>>

TopCategories ==
    /\ Step("top_categories")
    /\ loc' = [loc EXCEPT !.top_cats = top_categories(loc.df, top_k_categories)]
    /\ UNCHANGED <<fs, stdout, written>>

QualityFlags ==
    /\ Step("quality_flags")
    /\ loc' = [loc EXCEPT !.quality_flags =
                    compute_quality_flags(loc.summary, loc.missing_df, loc.df)]
    /\ UNCHANGED <<fs, stdout, written>>

\* one write of `payload` to out_root / name
Write(name, payload) ==
    /\ fs' = [fs EXCEPT ![out_root] = WriteFile(@, name, payload)]
    /\ written' = written \cup {name}

WriteSummary ==
    /\ Step("write_summary")
    /\ Write("summary.csv", loc.summary_df)
    /\ UNCHANGED <<loc, stdout>>

WriteMissing ==
    /\ Step("write_missing")
    /\ IF ShouldWrite(loc.missing_df)
       THEN Write("missing.csv", loc.missing_df)
       ELSE UNCHANGED <<fs, written>>
    /\ UNCHANGED <<loc, stdout>>

WriteCorrelation ==
    /\ Step("write_correlation")
    /\ IF ShouldWrite(loc.corr_df)
       THEN Write("correlation.csv", loc.corr_df)
       ELSE UNCHANGED <<fs, written>>
    /\ UNCHANGED <<loc, stdout>>

\* a viz call: it writes its output, or raises and nothing catches it
VizCall(stage, name, payload) ==
    \/ /\ Step(stage)
       /\ Write(name, payload)
       /\ UNCHANGED <<loc, stdout>>
    \/ /\ Raise(stage, "VizError")
       /\ fs' = [fs EXCEPT ![out_root] = AfterUncaught(@)]
       /\ UNCHANGED <<loc, stdout, written>>

SaveTopCategories ==
    VizCall("save_top_categories", "top_categories", loc.top_cats)

SelectProblematic ==
    /\ Step("select_problematic")
    /\ loc' = [loc EXCEPT !.problematic_missing =
                    ProblematicMissing(loc.missing_df, args.min_missing_share)]
    /\ UNCHANGED <<fs, stdout, written>>

\* the with-block that writes report.md
WriteReportMd ==
    /\ Step("write_report_md")
    /\ Write("report.md",
             [source |-> args.path,
              n_rows |-> loc.summary.n_rows,
              n_cols |-> loc.summary.n_cols,
              max_hist_columns |-> max_hist_columns,
              top_k_categories |-> top_k_categories,
              min_missing_share |-> args.min_missing_share,
              quality_flags |-> loc.quality_flags,
              problematic |-> ProblematicSection(loc.problematic_missing)])
    /\ UNCHANGED <<loc, stdout>>

PlotHistograms ==
    VizCall("plot_histograms", "hist", NumericNames(loc.df))

PlotMissingMatrix ==
    VizCall("plot_missing_matrix", "missing_matrix.png", loc.df.source)

PlotCorrelationHeatmap ==
    VizCall("plot_correlation_heatmap", "correlation_heatmap.png", loc.df.source)

ReportEchoDir == Echo("echo_dir", [tag |-> "dir", n |-> 0])

ReportEchoMd == Echo("echo_md", [tag |-> "md", n |-> 0])

Next ==
    \/ Invoke
    \/ MakeOutDir
    \/ LoadCsv
    \/ Summarize
    \/ Flatten
    \/ OverviewEchoRows
    \/ OverviewEchoCols
    \/ OverviewEchoHeader
    \/ OverviewEchoTable
    \/ MissingTable
    \/ CorrelationMatrix
    \/ TopCategories
    \/ QualityFlags
    \/ WriteSummary
    \/ WriteMissing
    \/ WriteCorrelation
    \/ SaveTopCategories
    \/ SelectProblematic
    \/ WriteReportMd
    \/ PlotHistograms
    \/ PlotMissingMatrix
    \/ PlotCorrelationHeatmap
    \/ ReportEchoDir
    \/ ReportEchoMd

Spec == Init /\ [][Next]_vars

(* ------------------------ vocabulary of the claims --------------------- *)

Has(stage) == \E i \in DOMAIN log : log[i] = stage

Present(d, f) == fs[d].files[f] # <<>>

Tabular(entry) == [f \in TabularNames |-> entry.files[f]]

InputBad(path) == ~InputFiles[path].exists \/ ~InputFiles[path].readable

SuccessLines == <<[tag |-> "dir", n |-> 0], [tag |-> "md", n |-> 0]>>

PlotStages ==
    {"plot_histograms", "plot_missing_matrix", "plot_correlation_heatmap"}

LastStage == log[Len(log)]

\* the missing-value table and correlation matrix of this run were written
\* exactly when they are not empty
ConditionalWritesDone ==
    /\ ("missing.csv" \in written) <=> (loc.missing_df # {})
    /\ ("correlation.csv" \in written) <=> (loc.corr_df # {})

(* ------------------------------- claims -------------------------------- *)

\* C1: for both commands, when the input path does not exist or the reader
\* fails, the command ends in a bad-parameter error and no later stage runs:
\* nothing is summarised, printed or written, and the command never succeeds.
C1_BadInputEndsInBadParameter ==
    (cmd # "none" /\ InputBad(args.path)) =>
        /\ pc # "done"
        /\ (pc = "failed" => failure = "BadParameter")
        /\ \A i \in DOMAIN log : log[i] \in {"mkdir", "load"}
        /\ stdout = <<>>
        /\ written = {}

\* C2: in a report run summary.csv is always written; missing.csv is written
\* if and only if the missing-value table of the run is not empty, and
\* correlation.csv if and only if the correlation matrix is not empty.
C2_TabularWrites ==
    cmd = "report" =>
        /\ ("missing.csv" \in written =>
                /\ loc.missing_df # {}
                /\ fs[out_root].files["missing.csv"] = <<loc.missing_df>>)
        /\ ("correlation.csv" \in written =>
                /\ loc.corr_df # {}
                /\ fs[out_root].files["correlation.csv"] = <<loc.corr_df>>)
        /\ (Has("write_summary") =>
                /\ "summary.csv" \in written
                /\ fs[out_root].files["summary.csv"] = <<loc.summary_df>>)
        /\ (Has("write_correlation") =>
                /\ "summary.csv" \in written
                /\ ConditionalWritesDone)

C2_Witness ==
    /\ cmd = "report"
    /\ pc = "done"
    /\ "missing.csv" \in written
    /\ "correlation.csv" \notin written

\* C3: when a successful report run returns, missing.csv is present under
\* out_dir only if the run's dataset has missing values, correlation.csv only
\* if it has at least two numeric columns, and every tabular artifact present
\* holds the table of the latest run.
C3_TabularReflectsLatestRun ==
    (cmd = "report" /\ pc = "done") =>
        /\ (Present(out_root, "missing.csv") =>
                \E c \in Range(InputFiles[args.path].cols) : c.missing > 0)
        /\ (Present(out_root, "correlation.csv") =>
                Cardinality({c \in Range(InputFiles[args.path].cols)
                                : c.numeric}) >= 2)
        /\ (Present(out_root, "summary.csv") =>
                fs[out_root].files["summary.csv"] = <<loc.summary_df>>)
        /\ (Present(out_root, "missing.csv") =>
                fs[out_root].files["missing.csv"] = <<loc.missing_df>>)
        /\ (Present(out_root, "correlation.csv") =>
                fs[out_root].files["correlation.csv"] = <<loc.corr_df>>)

\* C4: a successful report run that repeats the previous successful report
\* run (same input, options and out_dir) leaves summary.csv, missing.csv and
\* correlation.csv with the presence and contents they had after the first.
C4_Idempotent ==
    (cmd = "report" /\ pc = "done" /\ repeat) =>
        Tabular(fs[out_root]) = Tabular(fsStart[out_root])

C4_Witness ==
    /\ cmd = "report"
    /\ pc = "done"
    /\ repeat
    /\ Present(out_root, "missing.csv")
    /\ ~Present(out_root, "correlation.csv")

\* C5: report prints the output directory and the report path exactly when
\* the run succeeds, and only after every artifact has been written; a run
\* that fails prints neither line.
C5_SuccessMessageLast ==
    cmd = "report" =>
        /\ (pc = "done" => stdout = SuccessLines)
        /\ (pc = "failed" => stdout = <<>>)
        /\ (stdout # <<>> =>
                /\ {"summary.csv", "top_categories", "report.md", "hist",
                    "missing_matrix.png", "correlation_heatmap.png"}
                        \subseteq written
                /\ ConditionalWritesDone
                /\ failure = "")

C5_Witness ==
    /\ cmd = "report"
    /\ pc = "done"
    /\ stdout = SuccessLines
    /\ written = FileNames

C7_ZeroRows ==
    (cmd = "report" /\ ~InputBad(args.path)
        /\ InputFiles[args.path].n_rows = 0) =>
        /\ ~loc.problematic_missing.selected
        /\ loc.problematic_missing.rows = {}
        /\ "missing.csv" \notin written
        /\ (pc = "failed" => failure \in {"FileExistsError", "VizError"})
        /\ ("report.md" \in written =>
                /\ "summary.csv" \in written
                /\ fs[out_root].files["report.md"][1].problematic
                        = [none_found |-> TRUE, listed |-> {}])
        /\ (pc = "done" =>
                /\ {"summary.csv", "report.md"} \subseteq written
                /\ stdout = SuccessLines)

C7_Witness ==
    /\ cmd = "report"
    /\ args.path = "empty.csv"
    /\ pc = "done"
    /\ Has("select_problematic")

\* C8: when a plotting call of report fails the run aborts with no cleanup:
\* the tabular artifacts, the top-category tables and report.md written
\* earlier in the run remain, no later plotting call is attempted and the
\* success message is not printed.
C8_PlotFailureLeavesPartialOutput ==
    (cmd = "report" /\ pc = "failed" /\ failure = "VizError"
        /\ LastStage \in PlotStages) =>
        /\ fs[out_root].kind = "dir"
        /\ fs[out_root].files["summary.csv"] = <<loc.summary_df>>
        /\ (loc.missing_df # {} =>
                fs[out_root].files["missing.csv"] = <<loc.missing_df>>)
        /\ (loc.corr_df # {} =>
                fs[out_root].files["correlation.csv"] = <<loc.corr_df>>)
        /\ fs[out_root].files["top_categories"] = <<loc.top_cats>>
        /\ Present(out_root, "report.md")
        /\ fs[out_root].files["report.md"][1].source = args.path
        /\ (LastStage = "plot_histograms" =>
                /\ ~Has("plot_missing_matrix")
                /\ ~Has("plot_correlation_heatmap")
                /\ written \cap {"hist", "missing_matrix.png",
                                 "correlation_heatmap.png"} = {})
        /\ (LastStage = "plot_missing_matrix" =>
                /\ ~Has("plot_correlation_heatmap")
                /\ written \cap {"missing_matrix.png",
                                 "correlation_heatmap.png"} = {})
        /\ "correlation_heatmap.png" \notin written
        /\ stdout = <<>>

C8_Witness ==
    /\ cmd = "report"
    /\ pc = "failed"
    /\ failure = "VizError"
    /\ LastStage = "plot_missing_matrix"
    /\ "missing.csv" \in written
    /\ "hist" \in written

\* the position of a statement of report in the pipeline: load, summarise,
\* the three independent tables, the quality flags, the tabular writes,
\* report.md, the plots, the success message
StageRank(stage) ==
    CASE stage = "mkdir" -> 0
      [] stage = "load" -> 1
      [] stage \in {"summarize", "flatten"} -> 2
      [] stage \in {"missing_table", "correlation_matrix", "top_categories"}
            -> 3
      [] stage = "quality_flags" -> 4
      [] stage \in {"write_summary", "write_missing", "write_correlation",
                    "save_top_categories"} -> 5
      [] stage \in {"select_problematic", "write_report_md"} -> 6
      [] stage \in PlotStages -> 7
      [] stage \in {"echo_dir", "echo_md"} -> 8

\* C9: in a report run every stage executes at most once and in the fixed
\* order of the pipeline, and no file is written before the quality flags
\* have been computed.
C9_StagesOnceInOrder ==
    cmd = "report" =>
        /\ \A i, j \in DOMAIN log :
                i < j => /\ log[i] # log[j]
                         /\ StageRank(log[i]) <= StageRank(log[j])
        /\ (written # {} => Has("quality_flags"))
        /\ (pc = "done" => Len(log) = 19)

C9_Witness ==
    /\ cmd = "report"
    /\ pc = "done"
    /\ written = FileNames

\* C10: a report run that fails with an input error leaves the filesystem
\* as it was before the run (out_dir is not created, nothing under it is
\* created or changed); an overview run never changes the filesystem.
C10_InputErrorLeavesFsUntouched ==
    /\ (cmd = "report" /\ pc = "failed" /\ failure = "BadParameter") =>
            fs = fsStart
    /\ (cmd = "overview" => fs = fsStart)

====
